---- MODULE Spec2Model ----
(***************************************************************************)
(* The hello-world ARM transaction of anoma-beta-documentation:            *)
(* examples/hello-world (init.rs, util.rs, main.rs, hello_world_witness,   *)
(* hello_world_library) and examples/hello-world-start.                    *)
(*                                                                         *)
(* The application code is translated from the Rust sources.  The `arm`    *)
(* crate it calls (Resource, NullifierKey, MerkleTree, MerklePath,         *)
(* ComplianceUnit, LogicVerifier, Action, Transaction) is not part of the  *)
(* sources; those operators follow the specification's sections 3, 4 and 8.*)
(*                                                                         *)
(* Digests are finite sequences of integers.  A hash is modelled as the    *)
(* injective, domain-separated encoding of its inputs (the collision-free  *)
(* idealisation of section 6), so two digests are equal exactly when they  *)
(* were computed from the same inputs.                                     *)
(***************************************************************************)
EXTENDS Integers, Sequences, FiniteSets, TLC

(***************************************************************************)
(* Bounds of the model.                                                    *)
(***************************************************************************)
\* Secret nullifier keys NullifierKey::random_pair can draw.
NumKeys == 2
\* Values the random 32-byte nonce of the ephemeral resource ranges over.
NumNonces == 2
\* Values reset_randomness can draw.
NumSeeds == 2
\* Values of the blinding scalar rcv of a compliance witness.
NumRcv == 2

(***************************************************************************)
(* Hashing: domain separators and the injective encoding.                  *)
(***************************************************************************)
DomNkc == <<1>>
DomCm == <<2>>
DomNf == <<3>>
DomNonce == <<4>>
DomNode == <<5>>
DomKind == <<6>>

RECURSIVE Enc(_)
\* Length-prefixed concatenation of a sequence of integer sequences.
Enc(parts) ==
    IF Len(parts) = 0 THEN <<>>
    ELSE <<Len(Head(parts))>> \o Head(parts) \o Enc(Tail(parts))

Hash(dom, parts) == dom \o Enc(parts)

\* An absent digest: Option::None of a lookup or of a nullifier.
None == [ok |-> FALSE, val |-> <<>>]
Some(d) == [ok |-> TRUE, val |-> d]

(***************************************************************************)
(* Byte encodings (init.rs, hello-world-start util.rs).                    *)
(***************************************************************************)
Zeros(n) == [i \in 1..n |-> 0]

RECURSIVE to_le_bytes(_, _)
\* The n little-endian bytes of v.
to_le_bytes(v, n) ==
    IF n = 0 THEN <<>> ELSE <<v % 256>> \o to_le_bytes(v \div 256, n - 1)

\* A u128 is held as its eight 16-bit limbs, the least significant first:
\* the value is the sum of value[k] * 65536^(k-1).
U128Limbs == 8
LimbBase == 65536

\* The u128 of a literal n < 2^31.
u128(n) == [k \in 1..U128Limbs |-> IF k = 1 THEN n % LimbBase ELSE IF k = 2 THEN n \div LimbBase ELSE 0]

\* u128::to_le_bytes: 16 bytes, two of each limb, the low byte first.
u128_to_le_bytes(value) ==
    [i \in 1..(2 * U128Limbs) |->
        IF i % 2 = 1 THEN value[(i + 1) \div 2] % 256
                     ELSE value[i \div 2] \div 256]

\* A slip: the bytes are copied to the end of the array, arr[16..].
convert_hello_world_to_value_ref_right_aligned(value) ==
    LET arr == Zeros(32)
        bytes == u128_to_le_bytes(value)
    IN  SubSeq(arr, 1, 16) \o bytes

\* let mut arr = [0u8; 32]; arr[..16].copy_from_slice(&value.to_le_bytes())
convert_hello_world_to_value_ref(value) ==
    LET arr == Zeros(32)
        bytes == u128_to_le_bytes(value)
    IN  bytes \o SubSeq(arr, 17, 32)

\* rng.gen::<[u8; 32]>(): the 32 bytes of the draw numbered n.
gen_32_bytes(n) == to_le_bytes(n, 32)

\* A text is the sequence of its code points (below 2048); str::as_bytes
\* gives its UTF-8 encoding, one byte below 128 and two bytes from 128 on.
RECURSIVE as_bytes(_)
as_bytes(text) ==
    IF Len(text) = 0 THEN <<>>
    ELSE (IF Head(text) < 128 THEN <<Head(text)>>
          ELSE <<192 + (Head(text) \div 64), 128 + (Head(text) % 64)>>)
         \o as_bytes(Tail(text))

Min(a, b) == IF a < b THEN a ELSE b

\* A slip: the text's length is not capped; the slices of a text longer
\* than 32 bytes are out of range and the function panics.
convert_text_to_label_ref_uncapped(text) ==
    LET label_ref == Zeros(32)
        text_bytes == as_bytes(text)
        copy_len == Len(text_bytes)
    IN  IF copy_len > Len(label_ref) \/ copy_len > Len(text_bytes) THEN None
        ELSE Some(SubSeq(text_bytes, 1, copy_len)
                  \o SubSeq(label_ref, copy_len + 1, 32))

\* A slip: the cap is 31, the last byte of the label is never written.
convert_text_to_label_ref_cap_31(text) ==
    LET label_ref == Zeros(32)
        text_bytes == as_bytes(text)
        copy_len == Min(Len(text_bytes), 31)
    IN  IF copy_len > Len(label_ref) \/ copy_len > Len(text_bytes) THEN None
        ELSE Some(SubSeq(text_bytes, 1, copy_len)
                  \o SubSeq(label_ref, copy_len + 1, 32))

\* hello-world-start util.rs: label_ref[..copy_len].copy_from_slice(
\* &text_bytes[..copy_len]); a slice out of range panics (None).
convert_text_to_label_ref(text) ==
    LET label_ref == Zeros(32)
        text_bytes == as_bytes(text)
        copy_len == Min(Len(text_bytes), 32)
    IN  IF copy_len > Len(label_ref) \/ copy_len > Len(text_bytes) THEN None
        ELSE Some(SubSeq(text_bytes, 1, copy_len)
                  \o SubSeq(label_ref, copy_len + 1, 32))

\* b"Hello World"
HelloWorldBytes == <<72, 101, 108, 108, 111, 32, 87, 111, 114, 108, 100>>

\* label_ref[..hello_world_bytes.len()].copy_from_slice(hello_world_bytes)
HelloWorldLabelRef ==
    HelloWorldBytes \o Zeros(32 - Len(HelloWorldBytes))

\* The first bytes of HELLO_WORLD_ID = d1dc300a...: the circuit's verifying key.
HELLO_WORLD_ID == <<209, 220, 48, 10>>
\* The image id of a guest binary that is not the one HELLO_WORLD_ID names.
StaleImageId == <<0, 0, 0, 0>>

verifying_key == HELLO_WORLD_ID
verifying_key_as_bytes == verifying_key

(***************************************************************************)
(* NullifierKey and Resource (arm; specification section 3).               *)
(***************************************************************************)
NullifierKeys == 1..NumKeys

\* The public commitment of a secret nullifier key.
NkCommit(sk) == Hash(DomNkc, << <<sk>> >>)

\* NullifierKey::random_pair() for the secret key drawn.
random_pair(sk) == [key |-> sk, commitment |-> NkCommit(sk)]

\* The internal randomness Resource::create starts from.
DefaultSeed == <<0>>

Resource_create(logic_ref, label_ref, quantity, value_ref, is_ephemeral, nonce, nk_commitment) ==
    [logic_ref |-> logic_ref, label_ref |-> label_ref, quantity |-> quantity,
     value_ref |-> value_ref, is_ephemeral |-> is_ephemeral, nonce |-> nonce,
     nk_commitment |-> nk_commitment, rand_seed |-> DefaultSeed]

\* All fields of a resource, as the input of its commitment and nullifier.
ResourceEnc(r) ==
    Enc(<<r.logic_ref, r.label_ref, <<r.quantity>>, r.value_ref,
          <<IF r.is_ephemeral THEN 1 ELSE 0>>, r.nonce, r.nk_commitment,
          r.rand_seed>>)

commitment(r) == DomCm \o ResourceEnc(r)

\* Defined only for the secret key the resource's key commitment binds.
nullifier(r, sk) ==
    IF r.nk_commitment = NkCommit(sk)
    THEN Some(DomNf \o <<sk>> \o ResourceEnc(r))
    ELSE None

\* Resource::tag: the nullifier if consumed, else the commitment.
tag(r, is_consumed, sk) ==
    IF is_consumed THEN nullifier(r, sk) ELSE Some(commitment(r))

\* reset_randomness: every random field is drawn anew.
reset_randomness(r, seed, nonce) ==
    [r EXCEPT !.rand_seed = <<seed>>, !.nonce = gen_32_bytes(nonce)]

\* set_nonce_from_nf: the nonce is derived from the nullifier of `consumed`.
set_nonce_from_nf(r, consumed, sk) ==
    LET nf == nullifier(consumed, sk) IN
    IF nf.ok THEN [ok |-> TRUE, res |-> [r EXCEPT !.nonce = DomNonce \o nf.val]]
    ELSE [ok |-> FALSE, res |-> r]

set_value_ref(r, value_ref) == [r EXCEPT !.value_ref = value_ref]

set_nf_commitment(r, nk_commitment) == [r EXCEPT !.nk_commitment = nk_commitment]

(***************************************************************************)
(* init.rs                                                                 *)
(***************************************************************************)
\* A slip: the nonce is the zeroed array, not the rng's draw.
generate_ephemeral_resource_zero_nonce(nk_commitment, nonce) ==
    Resource_create(verifying_key_as_bytes, HelloWorldLabelRef, 1,
                    convert_hello_world_to_value_ref(u128(0)), TRUE,
                    Zeros(32), nk_commitment)

\* nonce is the draw of rng.gen(): the 32-byte array is gen_32_bytes(nonce).
generate_ephemeral_resource(nk_commitment, nonce) ==
    Resource_create(verifying_key_as_bytes, HelloWorldLabelRef, 1,
                    convert_hello_world_to_value_ref(u128(0)), TRUE,
                    gen_32_bytes(nonce), nk_commitment)

\* A slip: set_nonce_from_nf is left out, the nonce stays the refreshed one.
generate_persistent_resource_unlinked(consumed_resource, eph_nf_key, nf_key_cm, seed, nonce) ==
    LET cloned == consumed_resource
        persistent == [cloned EXCEPT !.is_ephemeral = FALSE]
        refreshed == reset_randomness(persistent, seed, nonce)
    IN  [ok |-> nullifier(consumed_resource, eph_nf_key).ok,
         res |-> set_nf_commitment(
                     set_value_ref(refreshed, convert_hello_world_to_value_ref(u128(1))),
                     nf_key_cm)]

\* A slip: set_value_ref is left out, the value stays the ephemeral one.
generate_persistent_resource_value_kept(consumed_resource, eph_nf_key, nf_key_cm, seed, nonce) ==
    LET cloned == consumed_resource
        persistent == [cloned EXCEPT !.is_ephemeral = FALSE]
        refreshed == reset_randomness(persistent, seed, nonce)
        linked == set_nonce_from_nf(refreshed, consumed_resource, eph_nf_key)
    IN  [ok |-> linked.ok, res |-> set_nf_commitment(linked.res, nf_key_cm)]

\* A slip: the nonce is derived from the nullifier of the clone, after its
\* flag and its randomness were changed.
generate_persistent_resource_from_clone(consumed_resource, eph_nf_key, nf_key_cm, seed, nonce) ==
    LET cloned == consumed_resource
        persistent == [cloned EXCEPT !.is_ephemeral = FALSE]
        refreshed == reset_randomness(persistent, seed, nonce)
        linked == set_nonce_from_nf(refreshed, refreshed, eph_nf_key)
    IN  [ok |-> linked.ok,
         res |-> set_nf_commitment(
                     set_value_ref(linked.res, convert_hello_world_to_value_ref(u128(1))),
                     nf_key_cm)]

\* ok = FALSE when set_nonce_from_nf aborts.
generate_persistent_resource(consumed_resource, eph_nf_key, nf_key_cm, seed, nonce) ==
    LET cloned == consumed_resource
        persistent == [cloned EXCEPT !.is_ephemeral = FALSE]
        refreshed == reset_randomness(persistent, seed, nonce)
        linked == set_nonce_from_nf(refreshed, consumed_resource, eph_nf_key)
    IN  [ok |-> linked.ok,
         res |-> set_nf_commitment(
                     set_value_ref(linked.res, convert_hello_world_to_value_ref(u128(1))),
                     nf_key_cm)]

(***************************************************************************)
(* MerkleTree and MerklePath (arm; specification sections 3 and 4.2).      *)
(***************************************************************************)
\* The leaf that fills an action tree up to a full binary tree.
PaddingLeaf == <<0>>

RECURSIVE WidthFrom(_, _)
WidthFrom(n, w) == IF w >= n THEN w ELSE WidthFrom(n, 2 * w)

\* The leaves, filled up with PaddingLeaf to the next power of two.
PaddedLeaves(leaves) ==
    leaves \o [i \in 1..(WidthFrom(Len(leaves), 1) - Len(leaves)) |-> PaddingLeaf]

\* The hash combine function of two children.
Combine(l, r) == Hash(DomNode, <<l, r>>)

HashLayer(layer) ==
    [i \in 1..(Len(layer) \div 2) |-> Combine(layer[2 * i - 1], layer[2 * i])]

RECURSIVE LayerRoot(_)
LayerRoot(layer) ==
    IF Len(layer) = 1 THEN layer[1] ELSE LayerRoot(HashLayer(layer))

MerkleTree_new(leaves) == [leaves |-> leaves]

MerkleTree_root(tree) == LayerRoot(PaddedLeaves(tree.leaves))

RECURSIVE PathFrom(_, _)
\* The siblings from position pos of the layer up to the root; `left` says
\* that the sibling is the left child.
PathFrom(layer, pos) ==
    IF Len(layer) = 1 THEN <<>>
    ELSE <<[sib |-> layer[IF pos % 2 = 1 THEN pos + 1 ELSE pos - 1],
            left |-> (pos % 2 = 0)]>>
         \o PathFrom(HashLayer(layer), (pos + 1) \div 2)

NoPath == [ok |-> FALSE, path |-> <<>>]

\* Fails when the exact leaf is absent; else the path of its first position.
generate_path(tree, leaf) ==
    IF \E i \in 1..Len(tree.leaves) : tree.leaves[i] = leaf
    THEN LET pos == CHOOSE i \in 1..Len(tree.leaves) :
                        /\ tree.leaves[i] = leaf
                        /\ \A j \in 1..(i - 1) : tree.leaves[j] # leaf
         IN  [ok |-> TRUE, path |-> PathFrom(PaddedLeaves(tree.leaves), pos)]
    ELSE NoPath

RECURSIVE MerklePath_root_unordered(_, _)
\* A slip: the sibling is always taken as the right child.
MerklePath_root_unordered(path, leaf) ==
    IF Len(path) = 0 THEN leaf
    ELSE MerklePath_root_unordered(Tail(path), Combine(leaf, Head(path).sib))

RECURSIVE MerklePath_root(_, _)
\* The root that the path implies with `leaf` as the leaf.
MerklePath_root(path, leaf) ==
    IF Len(path) = 0 THEN leaf
    ELSE MerklePath_root(Tail(path),
                         IF Head(path).left THEN Combine(Head(path).sib, leaf)
                         ELSE Combine(leaf, Head(path).sib))

\* MerklePath::default()
MerklePath_default == <<>>

(***************************************************************************)
(* hello_world_witness/src/lib.rs                                          *)
(***************************************************************************)
HelloWorldWitness_new(is_consumed, hello_world, hello_world_existence_path, nf_key) ==
    [is_consumed |-> is_consumed, hello_world |-> hello_world,
     hello_world_existence_path |-> hello_world_existence_path,
     nf_key |-> nf_key]

\* AppData {..Default::default()}
DefaultAppData == <<>>

\* Digest::as_words: the digest, read as words.
as_words(d) == d

NoInstance == [tag |-> <<>>, is_consumed |-> FALSE, root |-> <<>>, app_data |-> <<>>]

Abort(site) == [ok |-> FALSE, abort |-> site, instance |-> NoInstance]

\* A slip: all 32 bytes of label_ref are compared with the padded literal.
constrain_whole_label(self) ==
    IF Len(self.hello_world.label_ref) < 11 THEN Abort("slice")
    ELSE
    IF self.hello_world.label_ref # HelloWorldLabelRef THEN Abort("label")
    ELSE
    LET t == tag(self.hello_world, self.is_consumed, self.nf_key) IN
    IF ~t.ok THEN Abort("tag")
    ELSE [ok |-> TRUE, abort |-> "",
          instance |-> [tag |-> as_words(t.val),
                        is_consumed |-> self.is_consumed,
                        root |-> MerklePath_root(self.hello_world_existence_path, t.val),
                        app_data |-> DefaultAppData]]

\* A slip: the root is recomputed from the commitment, consumed or not.
constrain_commitment_leaf(self) ==
    IF Len(self.hello_world.label_ref) < 11 THEN Abort("slice")
    ELSE
    IF SubSeq(self.hello_world.label_ref, 1, 11) # HelloWorldBytes THEN Abort("label")
    ELSE
    LET t == tag(self.hello_world, self.is_consumed, self.nf_key) IN
    IF ~t.ok THEN Abort("tag")
    ELSE [ok |-> TRUE, abort |-> "",
          instance |-> [tag |-> as_words(t.val),
                        is_consumed |-> self.is_consumed,
                        root |-> MerklePath_root(self.hello_world_existence_path,
                                                 commitment(self.hello_world)),
                        app_data |-> DefaultAppData]]

\* A slip: the tag is the nullifier under the witness key, consumed or not.
constrain_nullifier_tag(self) ==
    IF Len(self.hello_world.label_ref) < 11 THEN Abort("slice")
    ELSE
    IF SubSeq(self.hello_world.label_ref, 1, 11) # HelloWorldBytes THEN Abort("label")
    ELSE
    LET t == tag(self.hello_world, TRUE, self.nf_key) IN
    IF ~t.ok THEN Abort("tag")
    ELSE [ok |-> TRUE, abort |-> "",
          instance |-> [tag |-> as_words(t.val),
                        is_consumed |-> self.is_consumed,
                        root |-> MerklePath_root(self.hello_world_existence_path, t.val),
                        app_data |-> DefaultAppData]]

\* A slip: the circuit also asserts that the value is the initialized one.
constrain_initialized_value(self) ==
    IF Len(self.hello_world.label_ref) < 11 THEN Abort("slice")
    ELSE
    IF SubSeq(self.hello_world.label_ref, 1, 11) # HelloWorldBytes THEN Abort("label")
    ELSE
    IF self.hello_world.value_ref # convert_hello_world_to_value_ref(u128(1)) THEN Abort("value")
    ELSE
    LET t == tag(self.hello_world, self.is_consumed, self.nf_key) IN
    IF ~t.ok THEN Abort("tag")
    ELSE [ok |-> TRUE, abort |-> "",
          instance |-> [tag |-> as_words(t.val),
                        is_consumed |-> self.is_consumed,
                        root |-> MerklePath_root(self.hello_world_existence_path, t.val),
                        app_data |-> DefaultAppData]]

\* LogicCircuit::constrain.  abort names the panic site: "slice" (label_ref
\* has fewer than 11 bytes), "label" (assert_eq!) or "tag" (no nullifier).
constrain(self) ==
    IF Len(self.hello_world.label_ref) < 11 THEN Abort("slice")
    ELSE
    LET label == SubSeq(self.hello_world.label_ref, 1, 11)
        expected_label == HelloWorldBytes
    IN  IF label # expected_label THEN Abort("label")
        ELSE
        LET t == tag(self.hello_world, self.is_consumed, self.nf_key) IN
        IF ~t.ok THEN Abort("tag")
        ELSE [ok |-> TRUE, abort |-> "",
              instance |-> [tag |-> as_words(t.val),
                            is_consumed |-> self.is_consumed,
                            root |-> MerklePath_root(self.hello_world_existence_path, t.val),
                            app_data |-> DefaultAppData]]

(***************************************************************************)
(* hello_world_library/src/lib.rs and the guest: HelloWorldLogic, proved   *)
(* by running constrain in the guest binary whose image id is elf.         *)
(***************************************************************************)
HelloWorldLogic_new(is_consumed, hello_world, hello_world_existence_path, nf_key) ==
    [witness |-> HelloWorldWitness_new(is_consumed, hello_world,
                                       hello_world_existence_path, nf_key)]

\* LogicProver::prove: the journal is the instance the guest commits.
prove(logic, elf) ==
    LET r == constrain(logic.witness) IN
    [ok |-> r.ok, abort |-> r.abort,
     lv |-> [verifying_key |-> verifying_key, instance |-> r.instance,
             proof |-> [image |-> elf, journal |-> r.instance]]]

\* LogicVerifier::verify: the proof is one of the declared circuit for the
\* declared instance.
LogicVerifier_verify(lv) ==
    /\ lv.proof.image = lv.verifying_key
    /\ lv.proof.journal = lv.instance

(***************************************************************************)
(* ComplianceWitness and ComplianceUnit (arm; specification section 4.3).  *)
(***************************************************************************)
RECURSIVE from_le_bytes(_)
from_le_bytes(bytes) ==
    IF Len(bytes) = 0 THEN 0 ELSE Head(bytes) + 256 * from_le_bytes(Tail(bytes))

\* The kind of a resource: what its quantity is a quantity of.
Kind(r) == Hash(DomKind, <<r.logic_ref, r.label_ref>>)

\* rcv is the fresh blinding scalar of this witness, kept as 32 bytes.
ComplianceWitness_from_resources_with_path(consumed_resource, nf_key, merkle_path, created_resource, scalar) ==
    [consumed_resource |-> consumed_resource, nf_key |-> nf_key,
     merkle_path |-> merkle_path, created_resource |-> created_resource,
     rcv |-> to_le_bytes(scalar, 32)]

\* The value commitment of a unit: the consumed quantity of the consumed kind
\* minus the created quantity of the created kind, blinded by rcv.
UnitDelta(w) ==
    [blind |-> from_le_bytes(w.rcv),
     vals |-> <<[kind |-> Kind(w.consumed_resource),
                 qty |-> w.consumed_resource.quantity],
                [kind |-> Kind(w.created_resource),
                 qty |-> 0 - w.created_resource.quantity]>>]

\* ComplianceUnit::create: fails when the key does not nullify the consumed
\* resource; the unit exposes the nullifier, the commitment, both logic
\* references and the value commitment, and carries the proof of them.
ComplianceUnit_create(w) ==
    LET nf == nullifier(w.consumed_resource, w.nf_key)
        instance == [consumed_nullifier |-> nf.val,
                     consumed_logic_ref |-> w.consumed_resource.logic_ref,
                     created_commitment |-> commitment(w.created_resource),
                     created_logic_ref |-> w.created_resource.logic_ref,
                     delta |-> UnitDelta(w)]
    IN  [ok |-> nf.ok,
         unit |-> [instance |-> instance, proof |-> [journal |-> instance]]]

ComplianceUnit_verify(unit) == unit.proof.journal = unit.instance

(***************************************************************************)
(* util.rs: generate_compliance_proof                                      *)
(***************************************************************************)
\* A slip: the rcv handed back is that of a second witness, not of the one
\* the unit was created from.
generate_compliance_proof_other_rcv(consumed_resource, nullifier_key, merkle_path, created_resource, scalar) ==
    LET compliance_witness ==
            ComplianceWitness_from_resources_with_path(
                consumed_resource, nullifier_key, merkle_path, created_resource,
                scalar)
        second_witness ==
            ComplianceWitness_from_resources_with_path(
                consumed_resource, nullifier_key, merkle_path, created_resource,
                scalar + 1)
        created == ComplianceUnit_create(compliance_witness)
    IN  [ok |-> created.ok, unit |-> created.unit, rcv |-> second_witness.rcv]

generate_compliance_proof(consumed_resource, nullifier_key, merkle_path, created_resource, scalar) ==
    LET compliance_witness ==
            ComplianceWitness_from_resources_with_path(
                consumed_resource, nullifier_key, merkle_path, created_resource,
                scalar)
        created == ComplianceUnit_create(compliance_witness)
    IN  [ok |-> created.ok, unit |-> created.unit, rcv |-> compliance_witness.rcv]

(***************************************************************************)
(* util.rs: generate_logic_proofs, statement by statement.                 *)
(***************************************************************************)
\* A slip: the nullifier is asked for with a key other than the one passed in.
ConsumedResourceNullifier_other_key(consumed_resource, nullifier_key) ==
    nullifier(consumed_resource, (nullifier_key % NumKeys) + 1)

\* consumed_resource.nullifier(&nullifier_key)
ConsumedResourceNullifier(consumed_resource, nullifier_key) ==
    nullifier(consumed_resource, nullifier_key)

\* A slip: the tree is built before the commitment is pushed to its leaves.
ActionTree_nullifier_only(consumed_resource_nullifier, created_resource_commitment) ==
    MerkleTree_new(<<consumed_resource_nullifier>>)

\* MerkleTree::new(vec![consumed_resource_nullifier, created_resource_commitment])
ActionTree(consumed_resource_nullifier, created_resource_commitment) ==
    MerkleTree_new(<<consumed_resource_nullifier, created_resource_commitment>>)

\* action_tree.generate_path(&consumed_resource_nullifier)
ConsumedResourcePath(action_tree, consumed_resource_nullifier) ==
    generate_path(action_tree, consumed_resource_nullifier)

\* A slip: the path of the first leaf, looked up for the created resource too.
CreatedResourcePath_first_leaf(action_tree, created_resource_commitment) ==
    generate_path(action_tree, action_tree.leaves[1])

\* action_tree.generate_path(&created_resource_commitment)
CreatedResourcePath(action_tree, created_resource_commitment) ==
    generate_path(action_tree, created_resource_commitment)

\* A slip: the consumed resource proved with is_consumed = false.
ConsumedLogicProof_as_created(consumed_resource, consumed_resource_path, nullifier_key, elf) ==
    prove(HelloWorldLogic_new(FALSE, consumed_resource, consumed_resource_path,
                              nullifier_key), elf)

\* HelloWorldLogic::new(true, consumed_resource, path, nullifier_key).prove()
ConsumedLogicProof(consumed_resource, consumed_resource_path, nullifier_key, elf) ==
    prove(HelloWorldLogic_new(TRUE, consumed_resource, consumed_resource_path,
                              nullifier_key), elf)

\* HelloWorldLogic::new(false, created_resource, path, nullifier_key).prove()
CreatedLogicProof(created_resource, created_resource_path, nullifier_key, elf) ==
    prove(HelloWorldLogic_new(FALSE, created_resource, created_resource_path,
                              nullifier_key), elf)

\* A slip: the created resource's proof comes first.
LogicProofsVec_created_first(consumed_logic_proof, created_logic_proof) ==
    <<created_logic_proof, consumed_logic_proof>>

\* vec![consumed_logic_proof, created_logic_proof]
LogicProofsVec(consumed_logic_proof, created_logic_proof) ==
    <<consumed_logic_proof, created_logic_proof>>

\* A slip: each resource proved with the other one's path.
LogicProofsWithPaths_crossed(consumed_resource, nullifier_key, created_resource, consumed_resource_path, created_resource_path, elf) ==
    LET c == ConsumedLogicProof(consumed_resource, created_resource_path,
                                nullifier_key, elf)
        d == CreatedLogicProof(created_resource, consumed_resource_path,
                               nullifier_key, elf)
    IN  [ok |-> c.ok /\ d.ok, proofs |-> LogicProofsVec(c.lv, d.lv)]

\* The two proofs of generate_logic_proofs once both paths are known.
LogicProofsWithPaths(consumed_resource, nullifier_key, created_resource, consumed_resource_path, created_resource_path, elf) ==
    LET c == ConsumedLogicProof(consumed_resource, consumed_resource_path,
                                nullifier_key, elf)
        d == CreatedLogicProof(created_resource, created_resource_path,
                               nullifier_key, elf)
    IN  [ok |-> c.ok /\ d.ok, proofs |-> LogicProofsVec(c.lv, d.lv)]

\* The whole of generate_logic_proofs; ok = FALSE when one of its unwraps or
\* proofs aborts.
generate_logic_proofs(consumed_resource, nullifier_key, created_resource, elf) ==
    LET nf == ConsumedResourceNullifier(consumed_resource, nullifier_key)
        cm == commitment(created_resource)
        tree == ActionTree(nf.val, cm)
        p1 == ConsumedResourcePath(tree, nf.val)
        p2 == CreatedResourcePath(tree, cm)
        both == LogicProofsWithPaths(consumed_resource, nullifier_key,
                                     created_resource, p1.path, p2.path, elf)
    IN  [ok |-> nf.ok /\ p1.ok /\ p2.ok /\ both.ok, proofs |-> both.proofs]

(***************************************************************************)
(* Action, Delta and Transaction (arm; specification section 4.5).         *)
(***************************************************************************)
Action_new(compliance_units, logic_verifier_inputs) ==
    [compliance_units |-> compliance_units,
     logic_verifier_inputs |-> logic_verifier_inputs]

\* The nullifiers and commitments the action's compliance units expose, in
\* order: the leaves of the action tree.
RECURSIVE UnitTags(_)
UnitTags(units) ==
    IF Len(units) = 0 THEN <<>>
    ELSE <<Head(units).instance.consumed_nullifier,
           Head(units).instance.created_commitment>> \o UnitTags(Tail(units))

Action_tags(action) == UnitTags(action.compliance_units)

Action_root(action) == MerkleTree_root(MerkleTree_new(Action_tags(action)))

SeqRange(s) == {s[i] : i \in 1..Len(s)}

\* A slip: the units and the proofs are verified, each on its own, and the
\* proofs are not checked against the units.
Action_verify_unlinked(action) ==
    /\ \A i \in 1..Len(action.compliance_units) :
           ComplianceUnit_verify(action.compliance_units[i])
    /\ \A i \in 1..Len(action.logic_verifier_inputs) :
           LogicVerifier_verify(action.logic_verifier_inputs[i])

\* Steps 1 to 3 of the verification of one action.
Action_verify(action) ==
    /\ \A i \in 1..Len(action.compliance_units) :
           ComplianceUnit_verify(action.compliance_units[i])
    /\ \A i \in 1..Len(action.logic_verifier_inputs) :
           LogicVerifier_verify(action.logic_verifier_inputs[i])
    /\ \A i \in 1..Len(action.logic_verifier_inputs) :
           /\ action.logic_verifier_inputs[i].instance.tag
                  \in SeqRange(Action_tags(action))
           /\ action.logic_verifier_inputs[i].instance.root = Action_root(action)

DeltaWitness_from_bytes(bytes) == [signing_key |-> from_le_bytes(bytes)]

\* Delta::Witness(w) and Delta::Proof(p).  A delta proof is a signature of
\* the message under the witness' scalar; `signer` stands for the public key
\* the signature verifies under.
Delta_Witness(w) == [kind |-> "witness", signer |-> w.signing_key, msg |-> <<>>]
Delta_Proof(p) == [kind |-> "proof", signer |-> p.signer, msg |-> p.msg]

Transaction_create(actions, delta) == [actions |-> actions, delta_proof |-> delta]

RECURSIVE ActionsTags(_)
ActionsTags(actions) ==
    IF Len(actions) = 0 THEN <<>>
    ELSE Action_tags(Head(actions)) \o ActionsTags(Tail(actions))

\* The message the delta proof signs: every tag of the transaction.
Transaction_delta_msg(tx) == ActionsTags(tx.actions)

RECURSIVE UnitsDelta(_)
UnitsDelta(units) ==
    IF Len(units) = 0 THEN [blind |-> 0, vals |-> <<>>]
    ELSE LET rest == UnitsDelta(Tail(units)) IN
         [blind |-> Head(units).instance.delta.blind + rest.blind,
          vals |-> Head(units).instance.delta.vals \o rest.vals]

RECURSIVE ActionsDelta(_)
ActionsDelta(actions) ==
    IF Len(actions) = 0 THEN [blind |-> 0, vals |-> <<>>]
    ELSE LET here == UnitsDelta(Head(actions).compliance_units)
             rest == ActionsDelta(Tail(actions))
         IN  [blind |-> here.blind + rest.blind, vals |-> here.vals \o rest.vals]

\* The aggregate of all value commitments of the transaction.
Transaction_delta_instance(tx) == ActionsDelta(tx.actions)

RECURSIVE SumQty(_, _)
SumQty(vals, kind) ==
    IF Len(vals) = 0 THEN 0
    ELSE (IF Head(vals).kind = kind THEN Head(vals).qty ELSE 0)
         + SumQty(Tail(vals), kind)

\* Every kind's quantities cancel.
Balanced(vals) == \A i \in 1..Len(vals) : SumQty(vals, vals[i].kind) = 0

DeltaProof_prove(msg, witness) == [signer |-> witness.signing_key, msg |-> msg]

\* The signature verifies under the aggregate commitment exactly when the
\* values cancel and the signing scalar is the sum of the blinding scalars.
DeltaProof_verify(msg, proof, instance) ==
    /\ proof.msg = msg
    /\ Balanced(instance.vals)
    /\ proof.signer = instance.blind

\* A slip: a second call takes the proof for a witness to be proved again.
generate_delta_proof_again(tx) ==
    IF tx.delta_proof.kind = "witness"
    THEN [tx EXCEPT !.delta_proof =
              Delta_Proof(DeltaProof_prove(Transaction_delta_msg(tx),
                                           [signing_key |-> tx.delta_proof.signer]))]
    ELSE [tx EXCEPT !.delta_proof =
              Delta_Witness([signing_key |-> tx.delta_proof.signer])]

\* In place: a witness becomes the proof; a proof stays what it is.
generate_delta_proof(tx) ==
    IF tx.delta_proof.kind = "witness"
    THEN [tx EXCEPT !.delta_proof =
              Delta_Proof(DeltaProof_prove(Transaction_delta_msg(tx),
                                           [signing_key |-> tx.delta_proof.signer]))]
    ELSE tx

\* A slip: the delta is checked by its scalar alone, be it witness or proof.
Transaction_verify_any_delta(tx) ==
    /\ \A i \in 1..Len(tx.actions) : Action_verify(tx.actions[i])
    /\ Balanced(Transaction_delta_instance(tx).vals)
    /\ tx.delta_proof.signer = Transaction_delta_instance(tx).blind

\* Transaction::verify (steps 1 to 4); a delta that is still a witness fails.
Transaction_verify(tx) ==
    /\ \A i \in 1..Len(tx.actions) : Action_verify(tx.actions[i])
    /\ tx.delta_proof.kind = "proof"
    /\ DeltaProof_verify(Transaction_delta_msg(tx), tx.delta_proof,
                         Transaction_delta_instance(tx))

(***************************************************************************)
(* The program: main.rs.  pc is the statement main or create_transaction   *)
(* is at; ct holds the locals of create_transaction, glp those of the call *)
(* of generate_logic_proofs; console is what println! has written; elf is  *)
(* the image id of the guest binary HELLO_WORLD_ELF; returned is the       *)
(* transaction main received; proved_transaction records the transaction   *)
(* as generate_delta_proof left it.  h, mk and cw belong to the component  *)
(* specifications further down and stay as they are while the program runs.*)
(***************************************************************************)
\* trace: the operations create_transaction has performed, in order.
VARIABLES pc, elf, console, ct, glp, proved_transaction, returned, h, mk, cw, ir, cv, trace

NoResource == Resource_create(<<>>, <<>>, 0, <<>>, FALSE, <<>>, <<>>)

NoTransaction == Transaction_create(<<>>, Delta_Witness([signing_key |-> 0]))

CtInit ==
    [ephemeral_nf_key |-> 0, ephemeral_nf_key_commitment |-> <<>>,
     consumed_resource |-> NoResource,
     persistent_nf_key_commitment |-> <<>>, created_resource |-> NoResource,
     compliance_unit |-> <<>>, rcv |-> <<>>, logic_verifier_inputs |-> <<>>,
     action |-> Action_new(<<>>, <<>>), delta_witness |-> [signing_key |-> 0],
     transaction |-> NoTransaction, verified |-> FALSE]

GlpInit ==
    [consumed_resource_nullifier |-> <<>>, created_resource_commitment |-> <<>>,
     action_tree |-> MerkleTree_new(<<>>), consumed_resource_path |-> <<>>,
     consumed_logic_proof |-> <<>>, created_resource_path |-> <<>>,
     created_logic_proof |-> <<>>]

NotReturned == [some |-> FALSE, tx |-> NoTransaction]

\* The states of the component specifications while they are not running.
HIdle ==
    [stage |-> "idle", swap |-> FALSE, shape |-> "one", tx |-> NoTransaction,
     created_resource |-> NoResource, log |-> <<>>]
MkIdle ==
    [stage |-> "idle", leaves |-> <<>>, tree |-> MerkleTree_new(<<>>),
     probe |-> <<>>, found |-> NoPath, root |-> <<>>]
CwIdle ==
    [stage |-> "idle",
     witness |-> HelloWorldWitness_new(FALSE, NoResource, <<>>, 0),
     result |-> Abort("")]
IrIdle ==
    [stage |-> "idle", nf_key |-> 0, nk_commitment |-> <<>>, nf_key_cm |-> <<>>,
     ephemeral |-> <<>>, persistent |-> <<>>]
CvIdle ==
    [stage |-> "idle", fn |-> "", value |-> u128(0), text |-> <<>>,
     result |-> None, back |-> <<>>]

\* main has not started; guest is the image id of HELLO_WORLD_ELF.
ProgramInit(guest) ==
    /\ pc = "main"
    /\ elf = guest
    /\ console = <<>>
    /\ ct = CtInit
    /\ glp = GlpInit
    /\ proved_transaction = NoTransaction
    /\ returned = NotReturned
    /\ ir = IrIdle
    /\ cv = CvIdle
    /\ trace = <<>>
    /\ h = HIdle
    /\ mk = MkIdle
    /\ cw = CwIdle

\* The image id of the binary at elf/hello_world_guest.bin is the one the
\* library declares for it.
Init == ProgramInit(HELLO_WORLD_ID)

println(line) == console' = Append(console, line)

\* main: println!, then the call of create_transaction.
MainStart ==
    /\ pc = "main"
    /\ println("Starting Hello World Application")
    /\ pc' = "step1"
    /\ UNCHANGED <<elf, ct, glp, proved_transaction, returned, h, mk, cw, ir, cv, trace>>

\* Step 1: NullifierKey::random_pair(); generate_ephemeral_resource.
Step1 ==
    /\ pc = "step1"
    /\ println("Creating ephemeral hello world resource...")
    /\ \E sk \in NullifierKeys, nonce \in 1..NumNonces :
           LET pair == random_pair(sk) IN
           ct' = [ct EXCEPT
                     !.ephemeral_nf_key = pair.key,
                     !.ephemeral_nf_key_commitment = pair.commitment,
                     !.consumed_resource =
                         generate_ephemeral_resource(pair.commitment, nonce)]
    /\ pc' = "step2"
    /\ trace' = trace \o <<"NullifierKey::random_pair", "generate_ephemeral_resource">>
    /\ UNCHANGED <<elf, glp, proved_transaction, returned, h, mk, cw, ir, cv>>

\* Step 2: NullifierKey::random_pair(); generate_persistent_resource.
Step2 ==
    /\ pc = "step2"
    /\ println("Creating persistent hello world resource...")
    /\ \E sk \in NullifierKeys, seed \in 1..NumSeeds, nonce \in 1..NumNonces :
           LET pair == random_pair(sk)
               made == generate_persistent_resource(
                           ct.consumed_resource, ct.ephemeral_nf_key,
                           pair.commitment, seed, nonce)
           IN  /\ ct' = [ct EXCEPT
                            !.persistent_nf_key_commitment = pair.commitment,
                            !.created_resource = made.res]
               /\ pc' = IF made.ok THEN "step3" ELSE "panic"
    /\ trace' = trace \o <<"NullifierKey::random_pair", "generate_persistent_resource">>
    /\ UNCHANGED <<elf, glp, proved_transaction, returned, h, mk, cw, ir, cv>>

\* Step 3: generate_compliance_proof with MerklePath::default().
Step3 ==
    /\ pc = "step3"
    /\ println("Creating compliance proof...")
    /\ \E scalar \in 1..NumRcv :
           LET made == generate_compliance_proof(
                           ct.consumed_resource, ct.ephemeral_nf_key,
                           MerklePath_default, ct.created_resource, scalar)
           IN  /\ ct' = [ct EXCEPT !.compliance_unit = made.unit,
                                   !.rcv = made.rcv]
               /\ pc' = IF made.ok THEN "step4" ELSE "panic"
    /\ trace' = trace \o <<"generate_compliance_proof">>
    /\ UNCHANGED <<elf, glp, proved_transaction, returned, h, mk, cw, ir, cv>>

\* Step 4, the call of generate_logic_proofs and its first statements: the
\* nullifier of the consumed and the commitment of the created resource.
LogicTags ==
    /\ pc = "step4"
    /\ println("Creating logic proofs...")
    /\ LET nf == ConsumedResourceNullifier(ct.consumed_resource,
                                           ct.ephemeral_nf_key)
       IN  /\ glp' = [glp EXCEPT
                         !.consumed_resource_nullifier = nf.val,
                         !.created_resource_commitment =
                             commitment(ct.created_resource)]
           /\ pc' = IF nf.ok THEN "tree" ELSE "panic"
    /\ trace' = trace \o <<"nullifier", "commitment">>
    /\ UNCHANGED <<elf, ct, proved_transaction, returned, h, mk, cw, ir, cv>>

LogicTree ==
    /\ pc = "tree"
    /\ glp' = [glp EXCEPT !.action_tree =
                   ActionTree(glp.consumed_resource_nullifier,
                              glp.created_resource_commitment)]
    /\ pc' = "path1"
    /\ trace' = trace \o <<"MerkleTree::new">>
    /\ UNCHANGED <<elf, console, ct, proved_transaction, returned, h, mk, cw, ir, cv>>

LogicConsumedPath ==
    /\ pc = "path1"
    /\ LET p == ConsumedResourcePath(glp.action_tree,
                                     glp.consumed_resource_nullifier)
       IN  /\ glp' = [glp EXCEPT !.consumed_resource_path = p.path]
           /\ pc' = IF p.ok THEN "prove1" ELSE "panic"
    /\ trace' = trace \o <<"generate_path">>
    /\ UNCHANGED <<elf, console, ct, proved_transaction, returned, h, mk, cw, ir, cv>>

LogicConsumedProof ==
    /\ pc = "prove1"
    /\ LET p == ConsumedLogicProof(ct.consumed_resource,
                                   glp.consumed_resource_path,
                                   ct.ephemeral_nf_key, elf)
       IN  /\ glp' = [glp EXCEPT !.consumed_logic_proof = p.lv]
           /\ pc' = IF p.ok THEN "path2" ELSE "panic"
    /\ trace' = trace \o <<"prove">>
    /\ UNCHANGED <<elf, console, ct, proved_transaction, returned, h, mk, cw, ir, cv>>

LogicCreatedPath ==
    /\ pc = "path2"
    /\ LET p == CreatedResourcePath(glp.action_tree,
                                    glp.created_resource_commitment)
       IN  /\ glp' = [glp EXCEPT !.created_resource_path = p.path]
           /\ pc' = IF p.ok THEN "prove2" ELSE "panic"
    /\ trace' = trace \o <<"generate_path">>
    /\ UNCHANGED <<elf, console, ct, proved_transaction, returned, h, mk, cw, ir, cv>>

LogicCreatedProof ==
    /\ pc = "prove2"
    /\ LET p == CreatedLogicProof(ct.created_resource, glp.created_resource_path,
                                  ct.ephemeral_nf_key, elf)
       IN  /\ glp' = [glp EXCEPT !.created_logic_proof = p.lv]
           /\ pc' = IF p.ok THEN "proofs" ELSE "panic"
    /\ trace' = trace \o <<"prove">>
    /\ UNCHANGED <<elf, console, ct, proved_transaction, returned, h, mk, cw, ir, cv>>

\* generate_logic_proofs returns vec![consumed_logic_proof, created_logic_proof].
LogicReturn ==
    /\ pc = "proofs"
    /\ ct' = [ct EXCEPT !.logic_verifier_inputs =
                  LogicProofsVec(glp.consumed_logic_proof, glp.created_logic_proof)]
    /\ pc' = "step5"
    /\ UNCHANGED <<elf, console, glp, proved_transaction, returned, h, mk, cw, ir, cv, trace>>

\* Step 5: Action::new(vec![compliance_unit], logic_verifier_inputs).
Step5 ==
    /\ pc = "step5"
    /\ println("Creating transaction action...")
    /\ ct' = [ct EXCEPT !.action =
                  Action_new(<<ct.compliance_unit>>, ct.logic_verifier_inputs)]
    /\ pc' = "step6"
    /\ trace' = trace \o <<"Action::new">>
    /\ UNCHANGED <<elf, glp, proved_transaction, returned, h, mk, cw, ir, cv>>

\* DeltaWitness::from_bytes(&rcv)
DeltaWitnessOf(bytes) == DeltaWitness_from_bytes(bytes)

\* Step 6: the delta witness, and Transaction::create(vec![action], Delta::Witness).
Step6 ==
    /\ pc = "step6"
    /\ println("Creating transaction...")
    /\ LET delta_witness == DeltaWitnessOf(ct.rcv) IN
       ct' = [ct EXCEPT
                 !.delta_witness = delta_witness,
                 !.transaction = Transaction_create(<<ct.action>>,
                                                    Delta_Witness(delta_witness))]
    /\ pc' = "step7"
    /\ trace' = trace \o <<"DeltaWitness::from_bytes", "Transaction::create">>
    /\ UNCHANGED <<elf, glp, proved_transaction, returned, h, mk, cw, ir, cv>>

\* A slip: step 7 prints its line and the delta proof is not generated.
Step7_left_out ==
    /\ pc = "step7"
    /\ println("Generating delta proof...")
    /\ proved_transaction' = ct.transaction
    /\ pc' = "verify"
    /\ UNCHANGED <<elf, ct, glp, returned, h, mk, cw, ir, cv, trace>>

\* Step 7: transaction.generate_delta_proof().
Step7 ==
    /\ pc = "step7"
    /\ println("Generating delta proof...")
    /\ ct' = [ct EXCEPT !.transaction = generate_delta_proof(ct.transaction)]
    /\ proved_transaction' = generate_delta_proof(ct.transaction)
    /\ pc' = "verify"
    /\ trace' = trace \o <<"generate_delta_proof">>
    /\ UNCHANGED <<elf, glp, returned, h, mk, cw, ir, cv>>

\* A slip: verify called on the transaction itself, which a failure empties.
TransactionAfterVerify_moved(tx, result) == IF result THEN tx ELSE NoTransaction

\* What verify leaves of the transaction: it is called on a clone.
TransactionAfterVerify(tx, result) == tx

\* if transaction.clone().verify() { println!(..) } else { println!(..) }
Verify ==
    /\ pc = "verify"
    /\ LET result == Transaction_verify(ct.transaction) IN
       /\ ct' = [ct EXCEPT !.verified = result,
                           !.transaction = TransactionAfterVerify(ct.transaction, result)]
       /\ console' = console \o
              <<"Verifying transaction...",
                IF result THEN "Transaction verified successfully"
                ELSE "Transaction verification failed">>
    /\ pc' = "return"
    /\ trace' = trace \o <<"verify">>
    /\ UNCHANGED <<elf, glp, proved_transaction, returned, h, mk, cw, ir, cv>>

\* The last expression of create_transaction: `transaction`, whatever
\* verify returned.
Return ==
    /\ pc = "return"
    /\ returned' = [some |-> TRUE, tx |-> ct.transaction]
    /\ pc' = "details"
    /\ UNCHANGED <<elf, console, ct, glp, proved_transaction, h, mk, cw, ir, cv, trace>>

\* main, after the call.
MainReport ==
    /\ pc = "details"
    /\ console' = console \o
           <<"Transaction Details:", "Transaction completed successfully!">>
    /\ pc' = "done"
    /\ UNCHANGED <<elf, ct, glp, proved_transaction, returned, h, mk, cw, ir, cv, trace>>

vars == <<pc, elf, console, ct, glp, proved_transaction, returned, h, mk, cw, ir, cv, trace>>

Next ==
    \/ MainStart
    \/ Step1
    \/ Step2
    \/ Step3
    \/ LogicTags
    \/ LogicTree
    \/ LogicConsumedPath
    \/ LogicConsumedProof
    \/ LogicCreatedPath
    \/ LogicCreatedProof
    \/ LogicReturn
    \/ Step5
    \/ Step6
    \/ Step7
    \/ Verify
    \/ Return
    \/ MainReport

Spec == Init /\ [][Next]_vars

(***************************************************************************)
(* The program with any guest binary at elf/hello_world_guest.bin: the     *)
(* file is not derived from HELLO_WORLD_ID, and a binary that is not the   *)
(* one the id names makes proofs the verifier rejects.                     *)
(***************************************************************************)
InitBuild == \E guest \in {HELLO_WORLD_ID, StaleImageId} : ProgramInit(guest)

SpecBuild == InitBuild /\ [][Next]_vars

(***************************************************************************)
(* A client of the same operations, for what the program does only once    *)
(* or not at all (section 8's scenarios): it builds one or two actions     *)
(* with the functions of init.rs and util.rs, creates the transaction with *)
(* Delta::Witness and then calls generate_delta_proof and verify in any    *)
(* order, and may change the label of its copy of the persistent resource. *)
(* h.log lists the calls made: op, verify's result, and whether the delta  *)
(* was still a witness when the call was made.                             *)
(***************************************************************************)
\* Calls the client makes on one transaction.
MaxCalls == 3

\* The label the client writes into its copy of the persistent resource.
OtherLabelRef == <<71, 111, 111, 100, 98, 121, 101>> \o Zeros(25)

\* One consume/create pair, built as create_transaction builds it; with
\* swap, each resource is proved with the other one's membership path.
BuildPair(sk, nonce, seed, scalar, swap, guest) ==
    LET pair == random_pair(sk)
        consumed == generate_ephemeral_resource(pair.commitment, nonce)
        made == generate_persistent_resource(consumed, pair.key, pair.commitment,
                                             seed, nonce)
        comp == generate_compliance_proof(consumed, pair.key, MerklePath_default,
                                          made.res, scalar)
        nf == ConsumedResourceNullifier(consumed, pair.key)
        cm == commitment(made.res)
        tree == ActionTree(nf.val, cm)
        p1 == ConsumedResourcePath(tree, nf.val)
        p2 == CreatedResourcePath(tree, cm)
        swapped == LogicProofsWithPaths(consumed, pair.key, made.res,
                                        p2.path, p1.path, guest)
        straight == generate_logic_proofs(consumed, pair.key, made.res, guest)
    IN  [ok |-> made.ok /\ comp.ok /\ (IF swap THEN swapped.ok ELSE straight.ok),
         created_resource |-> made.res, unit |-> comp.unit, rcv |-> comp.rcv,
         proofs |-> IF swap THEN swapped.proofs ELSE straight.proofs]

\* The actions of the client's transaction: one action; two actions; two
\* actions holding each other's logic proofs; two actions holding each
\* other's proof of the created resource.
ShapedActions(shape, a, b) ==
    CASE shape = "one" -> <<Action_new(<<a.unit>>, a.proofs)>>
      [] shape = "two" ->
             <<Action_new(<<a.unit>>, a.proofs), Action_new(<<b.unit>>, b.proofs)>>
      [] shape = "exchanged" ->
             <<Action_new(<<a.unit>>, b.proofs), Action_new(<<b.unit>>, a.proofs)>>
      [] OTHER ->
             <<Action_new(<<a.unit>>, <<a.proofs[1], b.proofs[2]>>),
               Action_new(<<b.unit>>, <<b.proofs[1], a.proofs[2]>>)>>

Shapes == {"one", "two", "exchanged", "foreign"}

ApiBuild ==
    /\ h.stage = "new"
    /\ \E sk \in NullifierKeys, nonce \in 1..NumNonces, seed \in 1..NumSeeds,
          scalar \in 1..NumRcv, swap \in BOOLEAN, shape \in Shapes :
           LET a == BuildPair(sk, nonce, seed, scalar, swap, HELLO_WORLD_ID)
               b == BuildPair(sk, nonce + NumNonces, seed, scalar, FALSE,
                              HELLO_WORLD_ID)
               total == IF shape = "one" THEN from_le_bytes(a.rcv)
                        ELSE from_le_bytes(a.rcv) + from_le_bytes(b.rcv)
           IN  /\ a.ok /\ b.ok
               /\ h' = [h EXCEPT
                           !.stage = "built", !.swap = swap, !.shape = shape,
                           !.created_resource = a.created_resource,
                           !.tx = Transaction_create(
                                      ShapedActions(shape, a, b),
                                      Delta_Witness([signing_key |-> total]))]
    /\ UNCHANGED <<pc, elf, console, ct, glp, proved_transaction, returned, mk, cw, ir, cv, trace>>

LogEntry(op, result) ==
    [op |-> op, result |-> result,
     was_witness |-> (h.tx.delta_proof.kind = "witness")]

ApiGenerateDeltaProof ==
    /\ h.stage = "built"
    /\ Len(h.log) < MaxCalls
    /\ h' = [h EXCEPT !.tx = generate_delta_proof(h.tx),
                      !.log = Append(h.log, LogEntry("generate_delta_proof", FALSE))]
    /\ UNCHANGED <<pc, elf, console, ct, glp, proved_transaction, returned, mk, cw, ir, cv, trace>>

\* tx.clone().verify()
ApiVerify ==
    /\ h.stage = "built"
    /\ Len(h.log) < MaxCalls
    /\ h' = [h EXCEPT !.log = Append(h.log,
                                     LogEntry("verify", Transaction_verify(h.tx)))]
    /\ UNCHANGED <<pc, elf, console, ct, glp, proved_transaction, returned, mk, cw, ir, cv, trace>>

\* The client's copy of the persistent resource gets another label.
ApiChangeLabel ==
    /\ h.stage = "built"
    /\ Len(h.log) < MaxCalls
    /\ h.created_resource.label_ref # OtherLabelRef
    /\ h' = [h EXCEPT !.created_resource.label_ref = OtherLabelRef,
                      !.log = Append(h.log, LogEntry("change_label", FALSE))]
    /\ UNCHANGED <<pc, elf, console, ct, glp, proved_transaction, returned, mk, cw, ir, cv, trace>>

InitApi ==
    /\ pc = "api"
    /\ elf = HELLO_WORLD_ID
    /\ console = <<>>
    /\ ct = CtInit
    /\ glp = GlpInit
    /\ proved_transaction = NoTransaction
    /\ returned = NotReturned
    /\ ir = IrIdle
    /\ cv = CvIdle
    /\ trace = <<>>
    /\ h = [HIdle EXCEPT !.stage = "new"]
    /\ mk = MkIdle
    /\ cw = CwIdle

NextApi ==
    \/ ApiBuild
    \/ ApiGenerateDeltaProof
    \/ ApiVerify
    \/ ApiChangeLabel

SpecApi == InitApi /\ [][NextApi]_vars

(***************************************************************************)
(* The action tree on its own: a tree over any leaf sequence, a path       *)
(* looked up for any value, and the root recomputed from the path.         *)
(***************************************************************************)
\* Longest leaf sequence of a tree.
MaxLeaves == 3
\* Distinct digests the leaves are drawn from.
NumLeafValues == 3

LeafValues == {<<10 + i>> : i \in 1..NumLeafValues}

LeafSeqs == UNION {[1..n -> LeafValues] : n \in 1..MaxLeaves}

\* The values looked up: every leaf value, the padding leaf, an inner node.
Probes == LeafValues \cup {PaddingLeaf, Combine(<<11>>, <<12>>)}

InitMerkle ==
    /\ pc = "merkle"
    /\ elf = HELLO_WORLD_ID
    /\ console = <<>>
    /\ ct = CtInit
    /\ glp = GlpInit
    /\ proved_transaction = NoTransaction
    /\ returned = NotReturned
    /\ ir = IrIdle
    /\ cv = CvIdle
    /\ trace = <<>>
    /\ h = HIdle
    /\ mk \in {[MkIdle EXCEPT !.stage = "new", !.leaves = l] : l \in LeafSeqs}
    /\ cw = CwIdle

MkNew ==
    /\ mk.stage = "new"
    /\ mk' = [mk EXCEPT !.stage = "tree", !.tree = MerkleTree_new(mk.leaves)]
    /\ UNCHANGED <<pc, elf, console, ct, glp, proved_transaction, returned, h, cw, ir, cv, trace>>

MkGeneratePath ==
    /\ mk.stage = "tree"
    /\ \E v \in Probes :
           mk' = [mk EXCEPT !.stage = "path", !.probe = v,
                            !.found = generate_path(mk.tree, v)]
    /\ UNCHANGED <<pc, elf, console, ct, glp, proved_transaction, returned, h, cw, ir, cv, trace>>

MkRoot ==
    /\ mk.stage = "path"
    /\ mk.found.ok
    /\ mk' = [mk EXCEPT !.stage = "root",
                        !.root = MerklePath_root(mk.found.path, mk.probe)]
    /\ UNCHANGED <<pc, elf, console, ct, glp, proved_transaction, returned, h, cw, ir, cv, trace>>

NextMerkle ==
    \/ MkNew
    \/ MkGeneratePath
    \/ MkRoot

\* The tree on its own, and the tree generate_logic_proofs builds in a run
\* of the program.
SpecMerkle == (InitMerkle \/ Init) /\ [][NextMerkle \/ Next]_vars

(***************************************************************************)
(* The logic circuit on its own: constrain applied to any witness.         *)
(***************************************************************************)
\* "Hello World" itself; the same 11 bytes followed by "!" or by a last
\* byte 1; labels that differ within the first 11 bytes; a 10-byte label.
Labels ==
    {HelloWorldLabelRef,
     HelloWorldBytes \o <<33>> \o Zeros(20),
     HelloWorldBytes \o Zeros(20) \o <<1>>,
     [HelloWorldLabelRef EXCEPT ![7] = 119],
     [HelloWorldLabelRef EXCEPT ![11] = 0],
     [HelloWorldLabelRef EXCEPT ![1] = 74],
     Zeros(32),
     OtherLabelRef,
     SubSeq(HelloWorldBytes, 1, 10)}

WitnessPaths ==
    {MerklePath_default,
     <<[sib |-> <<11>>, left |-> FALSE]>>,
     <<[sib |-> <<11>>, left |-> TRUE]>>}

\* A resource bound to nullifier key 1, with any label and value 0 or 1.
WitnessResources ==
    {[generate_ephemeral_resource(NkCommit(1), 1) EXCEPT
          !.label_ref = l, !.value_ref = convert_hello_world_to_value_ref(u128(v))] :
        l \in Labels, v \in {0, 1}}

Witnesses ==
    {HelloWorldWitness_new(c, r, p, k) :
        c \in BOOLEAN, r \in WitnessResources, p \in WitnessPaths,
        k \in NullifierKeys}

InitConstrain ==
    /\ pc = "constrain"
    /\ elf = HELLO_WORLD_ID
    /\ console = <<>>
    /\ ct = CtInit
    /\ glp = GlpInit
    /\ proved_transaction = NoTransaction
    /\ returned = NotReturned
    /\ ir = IrIdle
    /\ cv = CvIdle
    /\ trace = <<>>
    /\ h = HIdle
    /\ mk = MkIdle
    /\ cw \in {[CwIdle EXCEPT !.stage = "new", !.witness = w] : w \in Witnesses}

\* The guest: read the witness, constrain, commit the instance.
CwConstrain ==
    /\ cw.stage = "new"
    /\ cw' = [cw EXCEPT !.stage = "done", !.result = constrain(cw.witness)]
    /\ UNCHANGED <<pc, elf, console, ct, glp, proved_transaction, returned, h, mk, ir, cv, trace>>

NextConstrain == CwConstrain

SpecConstrain == InitConstrain /\ [][NextConstrain]_vars

(***************************************************************************)
(* init.rs on its own: resources made and derived by a client that holds   *)
(* one ephemeral key pair and one new key commitment.                      *)
(***************************************************************************)
\* Calls of each of the two functions.
MaxResources == 2

\* One call of generate_ephemeral_resource: the bytes its rng returned and
\* the resource it returned.
EphemeralCall(nk_commitment, nonce) ==
    [rng |-> gen_32_bytes(nonce),
     res |-> generate_ephemeral_resource(nk_commitment, nonce)]

\* One call of generate_persistent_resource: its arguments, what it
\* returned (nothing if it panicked), and the caller's consumed resource
\* after the call (borrowed as &Resource, cloned at init.rs:94).
PersistentCall(consumed_resource, eph_nf_key, nf_key_cm, seed, nonce) ==
    LET call == generate_persistent_resource(consumed_resource, eph_nf_key,
                                             nf_key_cm, seed, nonce)
    IN  [consumed_resource |-> consumed_resource, eph_nf_key |-> eph_nf_key,
         nf_key_cm |-> nf_key_cm, ok |-> call.ok,
         res |-> IF call.ok THEN call.res ELSE NoResource,
         consumed_after |-> consumed_resource]

InitInitRs ==
    /\ pc = "init_rs"
    /\ elf = HELLO_WORLD_ID
    /\ console = <<>>
    /\ ct = CtInit
    /\ glp = GlpInit
    /\ proved_transaction = NoTransaction
    /\ returned = NotReturned
    /\ trace = <<>>
    /\ h = HIdle
    /\ mk = MkIdle
    /\ cw = CwIdle
    /\ cv = CvIdle
    /\ \E sk \in NullifierKeys, new_sk \in NullifierKeys :
           ir = [IrIdle EXCEPT !.stage = "new", !.nf_key = sk,
                               !.nk_commitment = random_pair(sk).commitment,
                               !.nf_key_cm = random_pair(new_sk).commitment]

IrEphemeral ==
    /\ ir.stage = "new"
    /\ Len(ir.ephemeral) < MaxResources
    /\ \E nonce \in 1..NumNonces :
           ir' = [ir EXCEPT !.ephemeral =
                      Append(ir.ephemeral, EphemeralCall(ir.nk_commitment, nonce))]
    /\ UNCHANGED <<pc, elf, console, ct, glp, proved_transaction, returned, h, mk, cw, cv, trace>>

\* The first ephemeral resource is consumed, once or again; the key passed
\* is the ephemeral key or the key after it.
IrPersistent ==
    /\ ir.stage = "new"
    /\ Len(ir.persistent) < MaxResources
    /\ Len(ir.ephemeral) > 0
    /\ \E key \in {ir.nf_key, (ir.nf_key % NumKeys) + 1},
          seed \in 1..NumSeeds, nonce \in 1..NumNonces :
           LET call == PersistentCall(ir.ephemeral[1].res, key, ir.nf_key_cm,
                                      seed, nonce)
           IN  ir' = [ir EXCEPT !.ephemeral[1].res = call.consumed_after,
                                !.persistent = Append(ir.persistent, call)]
    /\ UNCHANGED <<pc, elf, console, ct, glp, proved_transaction, returned, h, mk, cw, cv, trace>>

NextInitRs ==
    \/ IrEphemeral
    \/ IrPersistent

SpecInitRs == InitInitRs /\ [][NextInitRs]_vars

(***************************************************************************)
(* The two encodings on their own: convert_hello_world_to_value_ref        *)
(* applied to 128-bit values, convert_text_to_label_ref applied to texts,  *)
(* and the result read back.                                               *)
(***************************************************************************)
\* Limbs of a sampled value that are not zero.
MaxNonZeroLimbs == 2
\* Code points a sampled text ends with, after its run of 'A'.
MaxTail == 2

\* Limbs with a low byte, a high byte and all bits set.
LimbValues == {0, 1, 256, LimbBase - 1}

RECURSIVE WithLimbs(_)
\* The values with at most n limbs that are not zero.
WithLimbs(n) ==
    IF n = 0 THEN {u128(0)}
    ELSE {[v EXCEPT ![k] = a] :
             v \in WithLimbs(n - 1), k \in 1..U128Limbs, a \in LimbValues}

\* 0, 1, values with bits in few limbs, and 2^128 - 1.
U128Values ==
    WithLimbs(MaxNonZeroLimbs) \cup {[k \in 1..U128Limbs |-> LimbBase - 1]}

\* NUL, 'A', 'B' and a code point of two UTF-8 bytes.
CodePoints == {0, 65, 66, 233}

\* Runs of 'A' that bring a text to just below, to and beyond 32 bytes.
RunLengths == {0, 1, 29, 30, 31, 32, 33}

RECURSIVE TailsUpTo(_)
TailsUpTo(n) ==
    IF n = 0 THEN {<<>>}
    ELSE TailsUpTo(n - 1)
         \cup {Append(t, c) : t \in {u \in TailsUpTo(n - 1) : Len(u) = n - 1},
                              c \in CodePoints}

Texts == {[i \in 1..n |-> 65] \o t : n \in RunLengths, t \in TailsUpTo(MaxTail)}

\* u128::from_le_bytes of 16 bytes.
u128_from_le_bytes(bytes) ==
    [k \in 1..U128Limbs |-> bytes[2 * k - 1] + 256 * bytes[2 * k]]

RECURSIVE trim_end_zeros(_)
\* The bytes of a label up to its last byte that is not zero.
trim_end_zeros(bytes) ==
    IF Len(bytes) = 0 \/ bytes[Len(bytes)] # 0 THEN bytes
    ELSE trim_end_zeros(SubSeq(bytes, 1, Len(bytes) - 1))

InitConvert ==
    /\ pc = "convert"
    /\ elf = HELLO_WORLD_ID
    /\ console = <<>>
    /\ ct = CtInit
    /\ glp = GlpInit
    /\ proved_transaction = NoTransaction
    /\ returned = NotReturned
    /\ trace = <<>>
    /\ h = HIdle
    /\ mk = MkIdle
    /\ cw = CwIdle
    /\ ir = IrIdle
    /\ cv \in {[CvIdle EXCEPT !.stage = "new", !.fn = "value_ref", !.value = v] :
                  v \in U128Values}
              \cup {[CvIdle EXCEPT !.stage = "new", !.fn = "label_ref", !.text = t] :
                       t \in Texts}

CvValueRef ==
    /\ cv.stage = "new"
    /\ cv.fn = "value_ref"
    /\ cv' = [cv EXCEPT !.stage = "converted",
                        !.result = Some(convert_hello_world_to_value_ref(cv.value))]
    /\ UNCHANGED <<pc, elf, console, ct, glp, proved_transaction, returned, h, mk, cw, ir, trace>>

CvLabelRef ==
    /\ cv.stage = "new"
    /\ cv.fn = "label_ref"
    /\ cv' = [cv EXCEPT !.stage = "converted",
                        !.result = convert_text_to_label_ref(cv.text)]
    /\ UNCHANGED <<pc, elf, console, ct, glp, proved_transaction, returned, h, mk, cw, ir, trace>>

\* The reader of a payload: the integer of its first 16 bytes; the reader
\* of a label: its bytes without the padding.
CvReadBack ==
    /\ cv.stage = "converted"
    /\ cv.result.ok
    /\ Len(cv.result.val) = 32
    /\ cv' = [cv EXCEPT !.stage = "read",
                        !.back = IF cv.fn = "value_ref"
                                 THEN u128_from_le_bytes(SubSeq(cv.result.val, 1, 16))
                                 ELSE trim_end_zeros(cv.result.val)]
    /\ UNCHANGED <<pc, elf, console, ct, glp, proved_transaction, returned, h, mk, cw, ir, trace>>

NextConvert ==
    \/ CvValueRef
    \/ CvLabelRef
    \/ CvReadBack

SpecConvert == InitConvert /\ [][NextConvert]_vars

(***************************************************************************)
(* Properties of the program.                                              *)
(***************************************************************************)
AfterVerify == pc \in {"return", "details", "done"}

\* C1: for every draw of the two key pairs, the nonce, the refreshed
\* randomness and rcv, create_transaction reaches verify with a transaction
\* of one action (one compliance unit, two logic proofs) whose delta is a
\* proof, and verify returns true.
C1_CreateTransactionVerifies ==
    /\ pc # "panic"
    /\ AfterVerify =>
           /\ ct.verified = TRUE
           /\ Len(ct.transaction.actions) = 1
           /\ Len(ct.transaction.actions[1].compliance_units) = 1
           /\ Len(ct.transaction.actions[1].logic_verifier_inputs) = 2
           /\ ct.transaction.delta_proof.kind = "proof"
           /\ ct.transaction.delta_proof.signer = from_le_bytes(ct.rcv)

C1_Witness ==
    /\ pc = "done"
    /\ ct.verified
    /\ ct.persistent_nf_key_commitment # ct.ephemeral_nf_key_commitment

\* C5: verify changes nothing: after it, the transaction, and the one
\* create_transaction returns, is the transaction generate_delta_proof left,
\* whether verify returned true or false.
C5_VerifyChangesNothing ==
    /\ AfterVerify => ct.transaction = proved_transaction
    /\ returned.some => returned.tx = proved_transaction

C5_Witness ==
    /\ pc = "done"
    /\ returned.some
    /\ ~ct.verified
    /\ returned.tx.delta_proof.kind = "proof"
    /\ Len(returned.tx.actions) = 1

\* C6: create_transaction hands back only a transaction verify accepted, and
\* main reports success only for such a transaction.
C6_ReturnsOnlyVerified ==
    /\ returned.some => ct.verified
    /\ "Transaction completed successfully!" \in SeqRange(console) => ct.verified

(***************************************************************************)
(* Properties of the transaction's operations (SpecApi).                   *)
(***************************************************************************)
VerifyCalls == {i \in 1..Len(h.log) : h.log[i].op = "verify"}

DeltaProofCalls == {i \in 1..Len(h.log) : h.log[i].op = "generate_delta_proof"}

\* Every logic proof of the action names a tag its compliance unit exposes
\* and the root of the tree over the unit's nullifier and commitment.
ProofsFitAction(action) ==
    LET unit == action.compliance_units[1].instance IN
    \A i \in 1..Len(action.logic_verifier_inputs) :
        /\ action.logic_verifier_inputs[i].instance.tag
               \in {unit.consumed_nullifier, unit.created_commitment}
        /\ action.logic_verifier_inputs[i].instance.root
               = Combine(unit.consumed_nullifier, unit.created_commitment)

\* C2: verify returns true only if in every action each logic proof's tag
\* is a nullifier or commitment of that action's compliance unit and its
\* root is the root recomputed from them; a transaction whose actions hold
\* logic proofs of another action is rejected.
C2_VerifyChecksTagsAndRoots ==
    \A i \in VerifyCalls :
        h.log[i].result =>
            /\ \A a \in 1..Len(h.tx.actions) : ProofsFitAction(h.tx.actions[a])
            /\ h.shape \notin {"exchanged", "foreign"}

C2_Witness ==
    /\ h.shape = "two"
    /\ \E i \in VerifyCalls : h.log[i].result
    /\ \A a \in 1..2 : ProofsFitAction(h.tx.actions[a])

\* C3: the delta is a witness from Transaction::create until the first
\* generate_delta_proof, and a proof in every state after it: after verify
\* and after further calls of generate_delta_proof.
C3_DeltaWitnessToProofOneWay ==
    h.stage = "built" =>
        /\ DeltaProofCalls = {} => h.tx.delta_proof.kind = "witness"
        /\ DeltaProofCalls # {} => h.tx.delta_proof.kind = "proof"

C3_Witness ==
    /\ Len(h.log) = 3
    /\ h.log[1].op = "generate_delta_proof"
    /\ h.log[2].op = "verify"
    /\ h.log[3].op = "generate_delta_proof"
    /\ h.tx.delta_proof.kind = "proof"

\* C4: verify of a transaction whose delta is still a witness returns
\* false; two calls of verify in a row return the same result.
C4_VerifyOfWitnessFails ==
    /\ \A i \in VerifyCalls : h.log[i].was_witness => h.log[i].result = FALSE
    /\ \A i \in VerifyCalls :
           (i + 1) \in VerifyCalls => h.log[i + 1].result = h.log[i].result

C4_Witness ==
    \E i \in VerifyCalls :
        /\ (i + 1) \in VerifyCalls
        /\ h.log[i].was_witness
        /\ ~h.swap /\ h.shape = "one"

\* C8: with the membership paths of the consumed and the created resource
\* exchanged before proving, both roots in the logic instances differ from
\* the action tree root, and verify returns false.
C8_SwappedPathsRejected ==
    h.stage = "built" /\ h.swap =>
        /\ h.shape \in {"one", "two"} =>
               \A i \in 1..2 :
                   h.tx.actions[1].logic_verifier_inputs[i].instance.root
                       # Action_root(h.tx.actions[1])
        /\ \A i \in VerifyCalls : h.log[i].result = FALSE

C8_Witness ==
    /\ h.swap
    /\ h.shape = "one"
    /\ \E i \in VerifyCalls : ~h.log[i].was_witness /\ ~h.log[i].result

\* The transaction create_transaction builds, with its delta proved.
Honest(i) == ~h.swap /\ h.shape \in {"one", "two"} /\ ~h.log[i].was_witness

\* C9 as claimed: once the label of the persistent resource was changed
\* after generate_logic_proofs returned, verify fails.
C9_LabelChangeFailsVerify ==
    \A i \in 1..Len(h.log), j \in VerifyCalls :
        h.log[i].op = "change_label" /\ i < j => h.log[j].result = FALSE

\* C9, amended: the change reaches only the caller's copy of the resource;
\* the transaction holds the proofs and their instances, and verify
\* returns after the change what it returns without it: true for the
\* transaction whose proofs generate_logic_proofs made and whose delta is
\* proved.
C9_LabelChangeLeavesVerify ==
    \A i \in 1..Len(h.log), j \in VerifyCalls :
        h.log[i].op = "change_label" /\ i < j => h.log[j].result = Honest(j)

C9_Witness ==
    /\ h.created_resource.label_ref = OtherLabelRef
    /\ \E i \in 1..Len(h.log), j \in VerifyCalls :
           h.log[i].op = "change_label" /\ i < j /\ h.log[j].result

(***************************************************************************)
(* Properties of the action tree (SpecMerkle).                             *)
(***************************************************************************)
\* C7: generate_path succeeds exactly for the values that are leaves of the
\* tree, and the root recomputed from the path and the leaf is the tree's
\* root; in generate_logic_proofs the paths of the nullifier and of the
\* commitment both recompute the root of the action tree.
C7_PathRecomputesRoot ==
    /\ mk.stage \in {"path", "root"} =>
           (mk.found.ok <=> \E i \in 1..Len(mk.leaves) : mk.leaves[i] = mk.probe)
    /\ mk.stage = "root" => mk.root = MerkleTree_root(mk.tree)
    /\ pc \in {"proofs", "step5"} =>
           /\ MerklePath_root(glp.consumed_resource_path,
                              glp.consumed_resource_nullifier)
                  = MerkleTree_root(glp.action_tree)
           /\ MerklePath_root(glp.created_resource_path,
                              glp.created_resource_commitment)
                  = MerkleTree_root(glp.action_tree)

C7_Witness ==
    /\ mk.stage = "root"
    /\ Len(mk.leaves) = 3
    /\ mk.probe = mk.leaves[3]
    /\ mk.probe # mk.leaves[1] /\ mk.probe # mk.leaves[2]
    /\ Len(mk.found.path) = 2

(***************************************************************************)
(* Properties of the logic circuit (SpecConstrain).                        *)
(***************************************************************************)
\* The witness' tag exists: a created resource, or a consumed one with the
\* key its key commitment binds.
TagComputable(w) == ~w.is_consumed \/ w.hello_world.nk_commitment = NkCommit(w.nf_key)

HasHelloWorldPrefix(label_ref) == \A i \in 1..11 : label_ref[i] = HelloWorldBytes[i]

\* C10 as claimed: constrain returns an instance exactly when the 32-byte
\* label_ref is "Hello World" followed by zero bytes.
C10_ExactLabel ==
    cw.stage = "done" /\ Len(cw.witness.hello_world.label_ref) = 32
        /\ TagComputable(cw.witness) =>
        (cw.result.ok <=> cw.witness.hello_world.label_ref = HelloWorldLabelRef)

\* C10, amended: constrain aborts at its label assertion exactly when the
\* first 11 bytes of the 32-byte label_ref are not "Hello World"; bytes 11
\* to 31 are not examined, and a witness whose tag exists gets an instance
\* exactly when the first 11 bytes are "Hello World".
C10_LabelPrefix ==
    cw.stage = "done" /\ Len(cw.witness.hello_world.label_ref) = 32 =>
        /\ cw.result.abort = "label"
               <=> ~HasHelloWorldPrefix(cw.witness.hello_world.label_ref)
        /\ TagComputable(cw.witness) =>
               (cw.result.ok <=> HasHelloWorldPrefix(cw.witness.hello_world.label_ref))

C10_Witness ==
    /\ cw.stage = "done"
    /\ cw.result.ok
    /\ Len(cw.witness.hello_world.label_ref) = 32
    /\ cw.witness.hello_world.label_ref[12] = 33

\* C11: whenever constrain succeeds, the instance has the witness'
\* is_consumed flag; its tag is the resource's nullifier under the witness
\* key if the flag is set and the resource's commitment otherwise; its
\* root is the root of the witness path recomputed with that tag as the
\* leaf; its app_data is the default.
C11_InstanceOfWitness ==
    cw.stage = "done" /\ cw.result.ok =>
        LET w == cw.witness
            nf == nullifier(w.hello_world, w.nf_key)
            leaf == IF w.is_consumed THEN nf.val ELSE commitment(w.hello_world)
        IN  /\ cw.result.instance.is_consumed = w.is_consumed
            /\ w.is_consumed => nf.ok
            /\ cw.result.instance.tag = as_words(leaf)
            /\ cw.result.instance.root
                   = MerklePath_root(w.hello_world_existence_path, leaf)
            /\ cw.result.instance.app_data = DefaultAppData

C11_Witness ==
    /\ cw.stage = "done"
    /\ cw.result.ok
    /\ cw.witness.is_consumed
    /\ Len(cw.witness.hello_world_existence_path) = 1
    /\ cw.result.instance.root # cw.result.instance.tag

(***************************************************************************)
(* Properties of init.rs (SpecInitRs).                                     *)
(***************************************************************************)
\* The fields reset_randomness draws anew.
RefreshedFields == {"rand_seed", "nonce"}

ResourceFields == {"logic_ref", "label_ref", "quantity", "value_ref", "is_ephemeral", "nonce", "nk_commitment", "rand_seed"}

\* C12: two calls of generate_persistent_resource with the same consumed
\* resource, nullifier key and new key commitment fail or succeed alike
\* and give resources that agree in every field reset_randomness does not
\* refresh; the nonce is the same in both, and is the same whenever the
\* consumed resource and the key are the same.
C12_DerivationDeterministic ==
    \A i, j \in 1..Len(ir.persistent) :
        LET a == ir.persistent[i]
            b == ir.persistent[j]
        IN  a.consumed_resource = b.consumed_resource /\ a.eph_nf_key = b.eph_nf_key =>
                /\ a.ok = b.ok
                /\ a.ok => a.res.nonce = b.res.nonce
                /\ a.ok /\ a.nf_key_cm = b.nf_key_cm =>
                       \A f \in ResourceFields \ RefreshedFields : a.res[f] = b.res[f]

\* Two calls with the same arguments and different draws of the randomness.
C12_Witness ==
    /\ Len(ir.persistent) = 2
    /\ ir.persistent[1].ok /\ ir.persistent[2].ok
    /\ ir.persistent[1].consumed_resource = ir.persistent[2].consumed_resource
    /\ ir.persistent[1].eph_nf_key = ir.persistent[2].eph_nf_key
    /\ ir.persistent[1].res.rand_seed # ir.persistent[2].res.rand_seed
    /\ ir.persistent[1].res.nonce = ir.persistent[2].res.nonce

\* C13: a resource generate_persistent_resource(consumed, key, cm) returns
\* is not ephemeral, has the 32-byte encoding of 1 as value_ref, cm as
\* nullifier-key commitment, and the logic_ref, label_ref and quantity of
\* consumed; consumed is after the call what it was before it: ephemeral,
\* with value 0 and the nonce it was created with.
C13_PersistentFields ==
    /\ \A i \in 1..Len(ir.persistent) :
           LET call == ir.persistent[i] IN
           call.ok =>
               /\ call.res.is_ephemeral = FALSE
               /\ call.res.value_ref = <<1>> \o Zeros(31)
               /\ call.res.nk_commitment = call.nf_key_cm
               /\ call.res.logic_ref = call.consumed_resource.logic_ref
               /\ call.res.label_ref = call.consumed_resource.label_ref
               /\ call.res.quantity = call.consumed_resource.quantity
               /\ call.consumed_after = call.consumed_resource
    /\ \A i \in 1..Len(ir.ephemeral) :
           /\ ir.ephemeral[i].res.is_ephemeral = TRUE
           /\ ir.ephemeral[i].res.value_ref = Zeros(32)
           /\ ir.ephemeral[i].res.nonce = ir.ephemeral[i].rng

C13_Witness ==
    /\ Len(ir.persistent) = 1
    /\ ir.persistent[1].ok
    /\ ir.persistent[1].res.nk_commitment # ir.persistent[1].consumed_resource.nk_commitment
    /\ ir.persistent[1].res.value_ref # ir.persistent[1].consumed_resource.value_ref
    /\ \E i \in 1..Len(ir.ephemeral) :
           ir.ephemeral[i].res = ir.persistent[1].consumed_resource

C15_ValueRefLittleEndian ==
    cv.fn = "value_ref" /\ cv.stage \in {"converted", "read"} =>
        /\ cv.result.ok
        /\ Len(cv.result.val) = 32
        /\ \A k \in 1..U128Limbs :
               /\ cv.result.val[2 * k - 1] = cv.value[k] % 256
               /\ cv.result.val[2 * k] = cv.value[k] \div 256
        /\ \A i \in 17..32 : cv.result.val[i] = 0
        /\ cv.stage = "read" => cv.back = cv.value
        /\ \A u \in U128Values :
               u # cv.value => convert_hello_world_to_value_ref(u) # cv.result.val

\* 2^128 - 1 converted and read back.
C15_Witness ==
    /\ cv.fn = "value_ref"
    /\ cv.stage = "read"
    /\ \A k \in 1..U128Limbs : cv.value[k] = LimbBase - 1
    /\ cv.back = cv.value
    /\ cv.result.val[16] = 255

\* C16: for a text t, convert_text_to_label_ref(t) returns 32 bytes: the
\* first min(len(t), 32) are the first bytes of t's UTF-8 encoding, the
\* others are zero; a text longer than 32 bytes is cut to its first 32
\* bytes and the function does not fail.
C16_LabelRefPadded ==
    cv.fn = "label_ref" /\ cv.stage \in {"converted", "read"} =>
        LET text_bytes == as_bytes(cv.text)
            n == IF Len(text_bytes) < 32 THEN Len(text_bytes) ELSE 32
        IN  /\ cv.result.ok
            /\ Len(cv.result.val) = 32
            /\ \A i \in 1..n : cv.result.val[i] = text_bytes[i]
            /\ \A i \in (n + 1)..32 : cv.result.val[i] = 0

\* A text of 33 bytes whose last code point is cut in two.
C16_Witness ==
    /\ cv.fn = "label_ref"
    /\ cv.stage = "converted"
    /\ cv.result.ok
    /\ Len(as_bytes(cv.text)) = 33
    /\ cv.text[Len(cv.text)] = 233
    /\ cv.result.val[32] = 195

\* The texts of at most 32 bytes.
FitsLabel(text) == Len(as_bytes(text)) <= 32

\* The text does not end in a zero byte (the code point NUL).
NoZeroAtEnd(text) == Len(text) = 0 \/ text[Len(text)] # 0

\* C17 as claimed: every text of at most 32 bytes is recovered from its
\* label_ref, and two different texts of at most 32 bytes never have the
\* same label_ref.
C17_LabelRoundTrip ==
    cv.fn = "label_ref" /\ FitsLabel(cv.text) =>
        /\ cv.stage = "read" => cv.back = as_bytes(cv.text)
        /\ cv.stage \in {"converted", "read"} =>
               \A u \in Texts :
                   FitsLabel(u) /\ u # cv.text =>
                       convert_text_to_label_ref(u) # cv.result

\* C17, amended: every text of at most 32 bytes that does not end in a
\* zero byte is recovered from its label_ref as the bytes up to the last
\* one that is not zero, and two different such texts never have the same
\* label_ref.
C17_LabelRoundTripNoZeroAtEnd ==
    cv.fn = "label_ref" /\ FitsLabel(cv.text) /\ NoZeroAtEnd(cv.text) =>
        /\ cv.stage = "read" => cv.back = as_bytes(cv.text)
        /\ cv.stage \in {"converted", "read"} =>
               \A u \in Texts :
                   FitsLabel(u) /\ NoZeroAtEnd(u) /\ u # cv.text =>
                       convert_text_to_label_ref(u) # cv.result

\* A text of exactly 32 bytes, read back.
C17_Witness ==
    /\ cv.fn = "label_ref"
    /\ cv.stage = "read"
    /\ Len(as_bytes(cv.text)) = 32
    /\ cv.text[Len(cv.text)] = 233
    /\ cv.back = as_bytes(cv.text)

(***************************************************************************)
(* Properties of the steps of create_transaction (Spec).                   *)
(***************************************************************************)
\* generate_logic_proofs has returned.
AfterLogicProofs == pc \in {"step5", "step6", "step7", "verify", "return", "details", "done"}

\* The action is assembled.
AfterAction == pc \in {"step6", "step7", "verify", "return", "details", "done"}

\* C18: generate_logic_proofs returns two proofs, the first of the consumed
\* resource (is_consumed = true, its tag the nullifier) and the second of
\* the created resource (is_consumed = false, its tag the commitment); the
\* action create_transaction assembles holds the one compliance unit and
\* these two proofs in that order.
C18_TwoProofsInOrder ==
    /\ AfterLogicProofs =>
           /\ Len(ct.logic_verifier_inputs) = 2
           /\ ct.logic_verifier_inputs[1].instance.is_consumed = TRUE
           /\ ct.logic_verifier_inputs[1].instance.tag
                  = nullifier(ct.consumed_resource, ct.ephemeral_nf_key).val
           /\ ct.logic_verifier_inputs[2].instance.is_consumed = FALSE
           /\ ct.logic_verifier_inputs[2].instance.tag
                  = commitment(ct.created_resource)
    /\ AfterAction =>
           /\ ct.action.compliance_units = <<ct.compliance_unit>>
           /\ ct.action.logic_verifier_inputs = ct.logic_verifier_inputs

C18_Witness ==
    /\ pc = "step6"
    /\ Len(ct.action.compliance_units) = 1
    /\ Len(ct.action.logic_verifier_inputs) = 2
    /\ ct.action.logic_verifier_inputs[1].instance.is_consumed
    /\ ~ct.action.logic_verifier_inputs[2].instance.is_consumed

\* The step of the specification's control flow an operation belongs to:
\* 1 resource construction, 2 nullifier-key derivation, 3 compliance
\* witness/unit generation, 4 action-tree construction, 5 logic-proof
\* generation, 6 action assembly, 7 delta witness/proof generation,
\* 8 transaction assembly, 9 Transaction.verify.
FlowStep(op) ==
    CASE op \in {"generate_ephemeral_resource", "generate_persistent_resource"} -> 1
      [] op = "NullifierKey::random_pair" -> 2
      [] op = "generate_compliance_proof" -> 3
      [] op \in {"nullifier", "commitment", "MerkleTree::new"} -> 4
      [] op \in {"generate_path", "prove"} -> 5
      [] op = "Action::new" -> 6
      [] op \in {"DeltaWitness::from_bytes", "generate_delta_proof"} -> 7
      [] op = "Transaction::create" -> 8
      [] op = "verify" -> 9

\* C19 as claimed: the operations of a run follow the order of the
\* specification's control flow; none belongs to an earlier step than an
\* operation before it.
C19_FlowOrder ==
    \A i, j \in 1..Len(trace) : i < j => FlowStep(trace[i]) <= FlowStep(trace[j])

\* The operations of create_transaction in the order of its statements.
CodeOrder ==
    <<"NullifierKey::random_pair", "generate_ephemeral_resource",
      "NullifierKey::random_pair", "generate_persistent_resource",
      "generate_compliance_proof",
      "nullifier", "commitment", "MerkleTree::new",
      "generate_path", "prove", "generate_path", "prove",
      "Action::new",
      "DeltaWitness::from_bytes", "Transaction::create",
      "generate_delta_proof",
      "verify">>

\* C19, amended: each resource's nullifier-key pair is derived before the
\* resource is constructed; then the compliance unit, the action tree, the
\* two logic proofs and the action follow; the delta witness is made, the
\* transaction is assembled with it, the delta proof is generated on the
\* assembled transaction, and verify comes last.
C19_CodeOrder ==
    /\ Len(trace) <= Len(CodeOrder)
    /\ trace = SubSeq(CodeOrder, 1, Len(trace))
    /\ AfterVerify => trace = CodeOrder

C19_Witness ==
    /\ pc = "return"
    /\ trace = CodeOrder
    /\ ct.verified

\* The persistent resource is derived.
AfterStep2 == pc \in {"step3", "step4", "tree", "path1", "prove1", "path2", "prove2", "proofs"} \/ AfterLogicProofs

\* The compliance unit is made.
AfterStep3 == AfterStep2 /\ pc # "step3"

\* The nonce set_nonce_from_nf derives from the nullifier of r under sk.
NonceFromNullifierOf(r, sk) == set_nonce_from_nf(r, r, sk).res.nonce

\* C20: the nonce of the persistent resource is derived from the nullifier
\* of the ephemeral resource as generate_ephemeral_resource returned it,
\* under the ephemeral key, and not from the nullifier of its clone with
\* the flag cleared and the randomness refreshed; that nullifier is the
\* one the compliance unit exposes, the first leaf of the action tree and
\* the tag of the consumed resource's logic proof.
C20_NonceFromConsumedNullifier ==
    LET nf == nullifier(ct.consumed_resource, ct.ephemeral_nf_key) IN
    /\ AfterStep2 =>
           /\ nf.ok
           /\ ct.consumed_resource.is_ephemeral
           /\ ct.created_resource.nonce
                  = NonceFromNullifierOf(ct.consumed_resource, ct.ephemeral_nf_key)
           /\ \A seed \in 1..NumSeeds, nonce \in 1..NumNonces :
                  ct.created_resource.nonce
                      # NonceFromNullifierOf(
                            reset_randomness(
                                [ct.consumed_resource EXCEPT !.is_ephemeral = FALSE],
                                seed, nonce),
                            ct.ephemeral_nf_key)
    /\ AfterStep3 => ct.compliance_unit.instance.consumed_nullifier = nf.val
    /\ pc \in {"path1", "prove1", "path2", "prove2", "proofs"} \/ AfterLogicProofs =>
           glp.action_tree.leaves[1] = nf.val
    /\ AfterLogicProofs => ct.logic_verifier_inputs[1].instance.tag = nf.val

C20_Witness ==
    /\ pc = "step5"
    /\ glp.action_tree.leaves[1] = ct.logic_verifier_inputs[1].instance.tag
    /\ ct.compliance_unit.instance.consumed_nullifier = glp.action_tree.leaves[1]
    /\ ct.created_resource.nonce = DomNonce \o glp.action_tree.leaves[1]

(***************************************************************************)
(* Properties of generate_logic_proofs inside the program (Spec).          *)
(***************************************************************************)
\* The action tree is built.
TreeBuilt == pc \in {"path1", "prove1", "path2", "prove2", "proofs"} \/ AfterLogicProofs

\* Both membership paths are generated.
PathsGenerated == pc \in {"prove2", "proofs"} \/ AfterLogicProofs

\* C21: no generate_path comes before MerkleTree::new; from the first
\* lookup on, the leaves of the action tree are the consumed resource's
\* nullifier followed by the created resource's commitment, nothing added
\* and nothing reordered; both paths recompute the root of that tree.
C21_TreeBeforePaths ==
    /\ \A i \in 1..Len(trace) :
           trace[i] = "generate_path" =>
               \E j \in 1..(i - 1) : trace[j] = "MerkleTree::new"
    /\ TreeBuilt =>
           glp.action_tree.leaves
               = <<nullifier(ct.consumed_resource, ct.ephemeral_nf_key).val,
                   commitment(ct.created_resource)>>
    /\ PathsGenerated =>
           /\ MerklePath_root(glp.consumed_resource_path, glp.action_tree.leaves[1])
                  = MerklePath_root(glp.created_resource_path, glp.action_tree.leaves[2])
           /\ MerklePath_root(glp.created_resource_path, glp.action_tree.leaves[2])
                  = MerkleTree_root(glp.action_tree)

C21_Witness ==
    /\ pc = "prove2"
    /\ Len(glp.action_tree.leaves) = 2
    /\ Len(glp.consumed_resource_path) = 1
    /\ Len(glp.created_resource_path) = 1
    /\ glp.consumed_resource_path # glp.created_resource_path

\* The delta witness is made and the transaction assembled.
AfterStep6 == pc \in {"step7", "verify", "return", "details", "done"}

\* C22: the rcv that generate_compliance_proof hands back is the blinding
\* scalar of the unit it hands back; the action holds that unit alone; the
\* signing key of the delta witness, and of the delta the transaction
\* carries, is that scalar and no other.
C22_DeltaWitnessFromUnitRcv ==
    /\ AfterStep3 =>
           /\ Len(ct.rcv) = 32
           /\ from_le_bytes(ct.rcv) = ct.compliance_unit.instance.delta.blind
    /\ AfterAction =>
           ct.action.compliance_units = <<ct.compliance_unit>>
    /\ AfterStep6 =>
           /\ ct.delta_witness = DeltaWitness_from_bytes(ct.rcv)
           /\ ct.delta_witness.signing_key
                  = ct.action.compliance_units[1].instance.delta.blind
           /\ ct.transaction.actions = <<ct.action>>
           /\ ct.transaction.delta_proof.signer
                  = ct.transaction.actions[1].compliance_units[1].instance.delta.blind

C22_Witness ==
    /\ pc = "step7"
    /\ ct.delta_witness.signing_key = NumRcv
    /\ ct.compliance_unit.instance.delta.blind = NumRcv
    /\ ct.transaction.delta_proof.kind = "witness"

(***************************************************************************)
(* What constrain does not depend on (SpecConstrain).                      *)
(***************************************************************************)
\* The witnesses that differ from w in value_ref at most.
SameButValueRef(w) ==
    {[w EXCEPT !.hello_world.value_ref = convert_hello_world_to_value_ref(u128(v))] :
        v \in {0, 1, 2, 65535}}

\* C23: the outcome of constrain on a witness, an instance or the abort at
\* one of its sites, is the outcome on every witness that differs from it
\* in value_ref only; a created resource whose label begins with
\* "Hello World" gets its instance whatever its value is.
C23_ValueRefNotChecked ==
    cw.stage = "done" =>
        /\ \A other \in SameButValueRef(cw.witness) :
               /\ constrain(other).ok = cw.result.ok
               /\ constrain(other).abort = cw.result.abort
        /\ ~cw.witness.is_consumed
               /\ Len(cw.witness.hello_world.label_ref) = 32
               /\ HasHelloWorldPrefix(cw.witness.hello_world.label_ref)
               => cw.result.ok

C23_Witness ==
    /\ cw.stage = "done"
    /\ cw.result.ok
    /\ ~cw.witness.is_consumed
    /\ cw.witness.hello_world.value_ref = convert_hello_world_to_value_ref(u128(0))
    /\ \E other \in SameButValueRef(cw.witness) :
           /\ other.hello_world.value_ref = convert_hello_world_to_value_ref(u128(1))
           /\ constrain(other).ok
           /\ constrain(other).instance.tag # cw.result.instance.tag

(***************************************************************************)
(* No abort in create_transaction (Spec).                                  *)
(***************************************************************************)
\* The ephemeral resource and its key pair exist.
AfterStep1 == pc = "step2" \/ AfterStep2

\* C24: create_transaction reaches none of its abort sites: the consumed
\* resource stores the commitment of the key its nullifier is computed
\* with, so the nullifier exists; both leaves are found in the action
\* tree; the labels of the ephemeral and of the persistent resource begin
\* with "Hello World", so constrain returns an instance for each.
C24_NoAbortReached ==
    /\ pc # "panic"
    /\ AfterStep1 =>
           /\ ct.consumed_resource.nk_commitment = NkCommit(ct.ephemeral_nf_key)
           /\ ConsumedResourceNullifier(ct.consumed_resource, ct.ephemeral_nf_key).ok
           /\ HasHelloWorldPrefix(ct.consumed_resource.label_ref)
    /\ AfterStep2 =>
           /\ HasHelloWorldPrefix(ct.created_resource.label_ref)
           /\ ct.created_resource.label_ref = ct.consumed_resource.label_ref
    /\ TreeBuilt =>
           /\ ConsumedResourcePath(glp.action_tree, glp.consumed_resource_nullifier).ok
           /\ CreatedResourcePath(glp.action_tree, glp.created_resource_commitment).ok
    /\ PathsGenerated =>
           /\ ConsumedLogicProof(ct.consumed_resource, glp.consumed_resource_path,
                                 ct.ephemeral_nf_key, elf).abort = ""
           /\ CreatedLogicProof(ct.created_resource, glp.created_resource_path,
                                ct.ephemeral_nf_key, elf).abort = ""

C24_Witness ==
    /\ pc = "proofs"
    /\ glp.consumed_logic_proof.instance.is_consumed
    /\ glp.consumed_logic_proof.instance.tag = glp.consumed_resource_nullifier
    /\ glp.created_logic_proof.instance.tag = glp.created_resource_commitment
    /\ ct.created_resource.label_ref = HelloWorldLabelRef
    /\ ct.ephemeral_nf_key_commitment # ct.persistent_nf_key_commitment

(***************************************************************************)
(* The circuit alone and inside the program: constrain on any witness,     *)
(* and the witnesses generate_logic_proofs builds.                         *)
(***************************************************************************)
SpecLogic == (InitConstrain \/ Init) /\ [][NextConstrain \/ Next]_vars

\* The witness w with the nullifier key k in place of its own.
WithKey(w, k) == [w EXCEPT !.nf_key = k]

\* C25: for a witness with is_consumed = false, constrain gives the same
\* outcome, instance included, under every nullifier key.  In the program
\* the created resource's proof is the one made with the consumed
\* resource's ephemeral key; its instance is the one any other key gives:
\* the tag is the created resource's commitment and the root is the root
\* of the action tree.
C25_CreatedInstanceIgnoresKey ==
    /\ cw.stage = "done" /\ ~cw.witness.is_consumed =>
           \A k \in NullifierKeys : constrain(WithKey(cw.witness, k)) = cw.result
    /\ pc = "proofs" \/ AfterLogicProofs =>
           /\ glp.created_logic_proof
                  = CreatedLogicProof(ct.created_resource, glp.created_resource_path,
                                      ct.ephemeral_nf_key, elf).lv
           /\ \A k \in NullifierKeys :
                  CreatedLogicProof(ct.created_resource, glp.created_resource_path,
                                    k, elf).lv.instance
                      = glp.created_logic_proof.instance
           /\ glp.created_logic_proof.instance.tag
                  = as_words(commitment(ct.created_resource))
           /\ glp.created_logic_proof.instance.root = MerkleTree_root(glp.action_tree)

C25_Witness ==
    /\ pc = "proofs"
    /\ ~glp.created_logic_proof.instance.is_consumed
    /\ ct.created_resource.nk_commitment # NkCommit(ct.ephemeral_nf_key)
    /\ ~nullifier(ct.created_resource, ct.ephemeral_nf_key).ok
    /\ glp.created_logic_proof.instance.tag = commitment(ct.created_resource)

====
